---- MODULE Spec2Model ----
(***************************************************************************)
(* A model of paul-nameless/fetch: the page fetch service (fetch_html,     *)
(* fetch_content), the search result scraper (search_and_extract_results), *)
(* the command line entry point (main) and the tool surface (fetch,        *)
(* search_internet).  Text is a sequence of one-character strings, so that *)
(* the string operations of the code (startswith, re.search, replace,      *)
(* strip, concatenation) are computed and not assumed.                     *)
(***************************************************************************)
EXTENDS Integers, Sequences, FiniteSets

\* ------------------------------------------------------------ bounds
\* The longest results page, in result containers.
MaxContainers == 3
\* The largest cap a caller passes (the smallest is -1).
MaxResults == 3
\* The longest raw description of the date runs, in fragments.
MaxFragments == 3

\* ------------------------------------------------- Python values
None == [t |-> "None"]
Str(s) == [t |-> "str", s |-> s]
\* Python truth of an Optional[str]: None and "" are false.
Truthy(v) == v.t = "str" /\ v.s # <<>>
List(items) == [t |-> "list", items |-> items]
Num(n) == [t |-> "int", n |-> n]
\* A variable that holds no value yet.
Unset == [t |-> "unset"]

\* ------------------------------------------------- text operations
Letters == {"a", "b", "c", "d", "e", "f", "g", "h", "i", "j", "k", "l", "m",
            "n", "o", "p", "q", "r", "s", "t", "u", "v", "w", "x", "y", "z",
            "A", "B", "C", "D", "E", "F", "G", "H", "I", "J", "K", "L", "M",
            "N", "O", "P", "Q", "R", "S", "T", "U", "V", "W", "X", "Y", "Z",
            "_"}
Digits == {"0", "1", "2", "3", "4", "5", "6", "7", "8", "9"}
\* \w and \d of the date pattern; whitespace as str.strip() sees it.
IsWord(c) == c \in Letters \cup Digits
IsDigit(c) == c \in Digits
IsSpace(c) == c \in {" ", "\t"}

\* The number of digits of the year in the date pattern, \d{4}.
YearDigits == 4

StartsWith(s, p) == Len(s) >= Len(p) /\ SubSeq(s, 1, Len(p)) = p

\* The index after the longest run of word characters (digits when
\* digitsOnly) that starts at i: a greedy + of the pattern.
RunEnd(s, i, digitsOnly) ==
  LET In(c) == IF digitsOnly THEN IsDigit(c) ELSE IsWord(c)
  IN  CHOOSE j \in i..(Len(s) + 1) :
        /\ \A k \in i..(j - 1) : In(s[k])
        /\ (j = Len(s) + 1 \/ ~In(s[j]))

\* The index of the last character of the match of (\w+ \d+, \d{4}) that
\* starts at i, or 0 when the pattern does not match there.  A shorter run
\* of \w+ or \d+ is followed by a character of the run, never by the space
\* or the comma, so backtracking finds no other match.
DateMatchEnd(s, i) ==
  LET j == RunEnd(s, i, FALSE) IN
  IF j = i \/ j > Len(s) THEN 0
  ELSE IF s[j] # " " THEN 0
  ELSE LET k == RunEnd(s, j + 1, TRUE) IN
       IF k = j + 1 \/ k + 1 + YearDigits > Len(s) THEN 0
       ELSE IF s[k] # "," \/ s[k + 1] # " " THEN 0
       ELSE IF \E m \in (k + 2)..(k + 1 + YearDigits) : ~IsDigit(s[m]) THEN 0
       ELSE k + 1 + YearDigits

\* re.search: the leftmost position where the pattern matches, 0 if none.
DateMatchStart(s) ==
  LET starts == {i \in 1..Len(s) : DateMatchEnd(s, i) # 0}
  IN  IF starts = {} THEN 0
      ELSE CHOOSE i \in starts : \A o \in starts : i <= o

\* date_match.group(1) if date_match else None
SearchDate(s) ==
  LET i == DateMatchStart(s)
  IN  IF i = 0 THEN None ELSE Str(SubSeq(s, i, DateMatchEnd(s, i)))

\* str.replace(old, ""), old not empty: every non-overlapping occurrence,
\* left to right.
RECURSIVE Replace(_, _)
Replace(s, old) ==
  IF Len(s) < Len(old) THEN s
  ELSE IF SubSeq(s, 1, Len(old)) = old
       THEN Replace(SubSeq(s, Len(old) + 1, Len(s)), old)
       ELSE <<s[1]>> \o Replace(Tail(s), old)

\* str.strip()
RECURSIVE Strip(_)
Strip(s) ==
  IF s = <<>> THEN s
  ELSE IF IsSpace(s[1]) THEN Strip(Tail(s))
  ELSE IF IsSpace(s[Len(s)]) THEN Strip(SubSeq(s, 1, Len(s) - 1))
  ELSE s

\* Lines 173-176: the description with the date removed.
CleanDescription(desc_text, date) ==
  IF Truthy(date) THEN Strip(Replace(desc_text, date.s)) ELSE desc_text

\* ------------------------------------------------- fixed strings
NoTitle == <<"N", "o", " ", "t", "i", "t", "l", "e">>
NoDescription ==
  <<"N", "o", " ", "d", "e", "s", "c", "r", "i", "p", "t", "i", "o", "n">>
SearchOrigin ==
  <<"h", "t", "t", "p", "s", ":", "/", "/", "d", "u", "c", "k", "d", "u",
    "c", "k", "g", "o", ".", "c", "o", "m">>

\* Lines 147-149: a relative URL is resolved against the search origin.
ResolveUrl(url) ==
  IF Truthy(url) /\ StartsWith(url.s, <<"/">>) THEN Str(SearchOrigin \o url.s)
  ELSE url

\* A variant of SkipUrl that skips only a missing href and lets an empty
\* one through (if url is None: continue).
SkipUrl_NoneOnly(url) == url = None

\* Lines 150-151: the container is skipped when it has no URL.
SkipUrl(url) == ~Truthy(url)

\* Variants of CapReached: the comparison off by one (i > num_results),
\* and the cap counted in results kept (len(results) >= num_results).
CapReached_OffByOne(idx, kept, cap) == idx > cap
CapReached_CountsKept(idx, kept, cap) == kept >= cap

\* Lines 138-139: the loop stops at the cap; idx is the enumeration index,
\* kept the number of results appended so far.
CapReached(idx, kept, cap) == idx >= cap

\* Lines 170-182: the SearchResult built from the extracted fields.
MakeResult(url, title, desc_text) ==
  LET date == SearchDate(desc_text)
  IN  [url |-> url, title |-> title,
       description |-> CleanDescription(desc_text, date), date |-> date]

\* ------------------------------------------------- the environment
\* What a failing browser or extractor call raises: an Exception, with
\* the text str() gives for it.
ErrMsg == <<"t", "i", "m", "e", "o", "u", "t">>
LibraryError == [t |-> "Error", s |-> ErrMsg]

\* A result container of the results page: whether it holds the URL link
\* element, the link's href (None: no such attribute), and the text of
\* its title and description elements (None: no such element).
Container(link, href, title, desc) ==
  [link |-> link, href |-> href, title |-> title, desc |-> desc]

DateA == <<"M", "a", "y", " ", "1", ",", " ", "2", "0", "2", "4">>
DateB == <<"J", "u", "n", " ", "2", "2", ",", " ", "1", "9", "9", "9">>

ContainerKinds ==
  { Container(TRUE, Str(<<"u", ":", "a">>), Str(<<"A">>),
              Str(<<"a", " ">> \o DateA \o <<" ", "z">>)),
    Container(TRUE, Str(<<"/", "l">>), None, None),
    Container(FALSE, None, Str(<<"D">>), Str(<<"d">>)),
    Container(TRUE, None, Str(<<"E">>), Str(<<"e">>)),
    Container(TRUE, Str(<<>>), Str(<<"F">>), Str(<<"f">>)) }

RECURSIVE SeqsUpTo(_, _)
SeqsUpTo(S, n) ==
  IF n = 0 THEN {<<>>}
  ELSE LET shorter == SeqsUpTo(S, n - 1)
       IN  shorter \cup {Append(q, x) : q \in shorter, x \in S}

Pages == SeqsUpTo(ContainerKinds, MaxContainers)
Caps == (-1)..MaxResults

\* ------------------------------------------------- state
VARIABLES
  entry,        \* the operation the caller invoked
  argUrl,       \* args.url of the command line (None when not given)
  argQuery,     \* args.query of the command line (None when not given)
  output_type,  \* fetch_content's output_type
  markup,       \* what page.content() yields for the fetched URL
  page,         \* the result containers of the results page
  num_results,  \* the cap passed to search_and_extract_results
  pc,           \* the statement about to run
  session,      \* async_playwright(): "none", "open", "stopped"
  browser,      \* the launched browser: "none", "open", "closed"
  elements,     \* result_elements
  i,            \* the enumeration index of the loop
  el,           \* the sub-element last looked up (TRUE: found)
  url, title, desc_text,
  results,      \* the accumulated list of SearchResult
  html,         \* fetch_html's result as fetch_content sees it
  extracted,    \* what the extractor returned (Unset before it ran)
  exc,          \* the exception in flight (None: none)
  failedAt,     \* the statement that raised ("none": none did)
  inspected,    \* the indices of the containers looked into
  ret,          \* the value returned to the caller
  exitCode,     \* the exit status of the command line (None: running)
  stdout        \* what the command line printed on standard output

vars == <<entry, argUrl, argQuery, output_type, markup, page, num_results,
          pc, session, browser, elements, i, el, url, title, desc_text,
          results, html, extracted, exc, failedAt, inspected, ret, exitCode,
          stdout>>

inputs == <<entry, argUrl, argQuery, output_type, markup, page, num_results>>
browserVars == <<session, browser>>
loopVars == <<elements, i, el, url, title, desc_text, inspected>>
outVars == <<ret, exitCode, stdout>>

\* ------------------------------------- search_and_extract_results
\* Lines 115-119.
SearchCall ==
  /\ pc = "s_call"
  /\ results' = <<>>
  /\ pc' = "s_enter"
  /\ UNCHANGED <<inputs, browserVars, loopVars, html, extracted, exc,
                 failedAt, outVars>>

\* Line 121: async with async_playwright() as p.
SearchEnter ==
  /\ pc = "s_enter"
  /\ session' = "open"
  /\ pc' = "s_launch"
  /\ UNCHANGED <<inputs, browser, loopVars, results, html, extracted, exc,
                 failedAt, outVars>>

\* Line 123.
SearchLaunch ==
  /\ pc = "s_launch"
  /\ browser' = "open"
  /\ pc' = "s_new_page"
  /\ UNCHANGED <<inputs, session, loopVars, results, html, extracted, exc,
                 failedAt, outVars>>

\* Lines 126, 129: new_page, goto.
SearchNavigate ==
  /\ pc \in {"s_new_page", "s_goto"}
  /\ pc' = IF pc = "s_new_page" THEN "s_goto" ELSE "s_wait"
  /\ UNCHANGED <<inputs, browserVars, loopVars, results, html, extracted,
                 exc, failedAt, outVars>>

\* Line 132: wait_for_selector returns once a result container is there
\* (on a page without one it can only time out).
SearchWait ==
  /\ pc = "s_wait"
  /\ Len(page) > 0
  /\ pc' = "s_query_all"
  /\ UNCHANGED <<inputs, browserVars, loopVars, results, html, extracted,
                 exc, failedAt, outVars>>

\* Line 135.
SearchQueryAll ==
  /\ pc = "s_query_all"
  /\ elements' = page
  /\ i' = 0
  /\ pc' = "s_loop"
  /\ UNCHANGED <<inputs, browserVars, el, url, title, desc_text, inspected,
                 results, html, extracted, exc, failedAt, outVars>>

\* Lines 137-139: the next container, unless the list is exhausted or the
\* cap is reached.
SearchLoop ==
  /\ pc = "s_loop"
  /\ IF i >= Len(elements) \/ CapReached(i, Len(results), num_results)
     THEN /\ pc' = "s_close"
          /\ UNCHANGED inspected
     ELSE /\ pc' = "s_url_el"
          /\ inspected' = inspected \cup {i}
  /\ UNCHANGED <<inputs, browserVars, elements, i, el, url, title,
                 desc_text, results, html, extracted, exc, failedAt, outVars>>

\* Lines 142-144, 154-156, 162: query_selector for a sub-element.
SearchQuerySelector ==
  /\ pc \in {"s_url_el", "s_title_el", "s_desc_el"}
  /\ el' = CASE pc = "s_url_el" -> elements[i + 1].link
             [] pc = "s_title_el" -> elements[i + 1].title # None
             [] pc = "s_desc_el" -> elements[i + 1].desc # None
  /\ pc' = CASE pc = "s_url_el" -> "s_href"
             [] pc = "s_title_el" -> "s_title_txt"
             [] pc = "s_desc_el" -> "s_desc_txt"
  /\ UNCHANGED <<inputs, browserVars, elements, i, url, title, desc_text,
                 inspected, results, html, extracted, exc, failedAt, outVars>>

\* Lines 145-151: the href, resolved; continue when there is none.
SearchUrl ==
  /\ pc = "s_href"
  /\ LET href == IF el THEN elements[i + 1].href ELSE None
     IN  IF SkipUrl(href)
         THEN /\ url' = href
              /\ i' = i + 1
              /\ pc' = "s_loop"
         ELSE /\ url' = ResolveUrl(href)
              /\ i' = i
              /\ pc' = "s_title_el"
  /\ UNCHANGED <<inputs, browserVars, elements, el, title, desc_text,
                 inspected, results, html, extracted, exc, failedAt, outVars>>

\* Lines 157-159.
SearchTitle ==
  /\ pc = "s_title_txt"
  /\ title' = IF el THEN elements[i + 1].title ELSE Str(NoTitle)
  /\ pc' = "s_desc_el"
  /\ UNCHANGED <<inputs, browserVars, elements, i, el, url, desc_text,
                 inspected, results, html, extracted, exc, failedAt, outVars>>

\* Lines 163-167.
SearchDescription ==
  /\ pc = "s_desc_txt"
  /\ desc_text' = IF el THEN elements[i + 1].desc ELSE Str(NoDescription)
  /\ pc' = "s_append"
  /\ UNCHANGED <<inputs, browserVars, elements, i, el, url, title,
                 inspected, results, html, extracted, exc, failedAt, outVars>>

\* Lines 170-182, and the loop's step.
SearchAppend ==
  /\ pc = "s_append"
  /\ results' = Append(results, MakeResult(url, title, desc_text.s))
  /\ i' = i + 1
  /\ pc' = "s_loop"
  /\ UNCHANGED <<inputs, browserVars, elements, el, url, title, desc_text,
                 inspected, html, extracted, exc, failedAt, outVars>>

\* Line 184.
SearchClose ==
  /\ pc = "s_close"
  /\ browser' = "closed"
  /\ pc' = "s_exit"
  /\ UNCHANGED <<inputs, session, loopVars, results, html, extracted, exc,
                 failedAt, outVars>>

\* The statements of the try block that await the browser; a lookup of a
\* sub-element's text awaits only when the element was found.
SearchAwaits ==
  {"s_enter", "s_launch", "s_new_page", "s_goto", "s_wait", "s_query_all",
   "s_url_el", "s_title_el", "s_desc_el", "s_close"}
   \cup (IF el = TRUE THEN {"s_href", "s_title_txt", "s_desc_txt"} ELSE {})

\* Any of them raises: control leaves the try block, through the exit of
\* the async with when it was entered.
SearchRaise ==
  /\ pc \in SearchAwaits
  /\ exc' = LibraryError
  /\ failedAt' = pc
  /\ pc' = IF pc = "s_enter" THEN "s_except" ELSE "s_unwind"
  /\ UNCHANGED <<inputs, browserVars, loopVars, results, html, extracted,
                 outVars>>

\* Where control goes when search_and_extract_results is left.
SearchCaller ==
  CASE entry = "search_internet" -> "t_search_ret"
    [] entry = "main" -> "m_query_ret"
    [] OTHER -> "done"

\* A variant of SearchExit without the scoped session: on the way out
\* with an exception nothing is stopped (the session started and stopped
\* by hand, the stop after line 184 only).
SearchExit_NoScope ==
  /\ pc \in {"s_exit", "s_unwind"}
  /\ session' = IF pc = "s_exit" THEN "stopped" ELSE session
  /\ browser' = browser
  /\ pc' = IF pc = "s_exit" THEN "s_return" ELSE "s_except"
  /\ UNCHANGED <<inputs, loopVars, results, html, extracted, exc, failedAt,
                 outVars>>

\* The exit of the async with, on the way out of line 184 or with an
\* exception in flight: Playwright stops, and its driver takes every
\* browser it launched down with it.
SearchExit ==
  /\ pc \in {"s_exit", "s_unwind"}
  /\ session' = "stopped"
  /\ browser' = IF browser = "open" THEN "closed" ELSE browser
  /\ pc' = IF pc = "s_exit" THEN "s_return" ELSE "s_except"
  /\ UNCHANGED <<inputs, loopVars, results, html, extracted, exc, failedAt,
                 outVars>>

\* A variant of SearchExcept that logs the exception and raises it again.
SearchExcept_Reraise ==
  /\ pc = "s_except"
  /\ pc' = SearchCaller
  /\ UNCHANGED <<inputs, browserVars, loopVars, results, html, extracted,
                 exc, failedAt, outVars>>

\* Lines 186-187: the exception is logged and dropped.
SearchExcept ==
  /\ pc = "s_except"
  /\ exc' = None
  /\ pc' = "s_return"
  /\ UNCHANGED <<inputs, browserVars, loopVars, results, html, extracted,
                 failedAt, outVars>>

\* Line 189.
SearchReturn ==
  /\ pc = "s_return"
  /\ ret' = List(results)
  /\ pc' = SearchCaller
  /\ UNCHANGED <<inputs, browserVars, loopVars, results, html, extracted,
                 exc, failedAt, exitCode, stdout>>

\* ------------------------------------------------- fetch_html
Markups == { <<"<", "p", ">", "a", "<", "/", "p", ">">>,
             <<"<", "p", ">", "b", "<", "/", "p", ">">> }

\* Line 25: async with async_playwright() as p.
HtmlEnter ==
  /\ pc = "h_enter"
  /\ session' = "open"
  /\ pc' = "h_launch"
  /\ UNCHANGED <<inputs, browser, loopVars, results, html, extracted, exc,
                 failedAt, outVars>>

\* Line 27.
HtmlLaunch ==
  /\ pc = "h_launch"
  /\ browser' = "open"
  /\ pc' = "h_new_page"
  /\ UNCHANGED <<inputs, session, loopVars, results, html, extracted, exc,
                 failedAt, outVars>>

\* Lines 30, 33: new_page, goto.
HtmlNavigate ==
  /\ pc \in {"h_new_page", "h_goto"}
  /\ pc' = IF pc = "h_new_page" THEN "h_goto" ELSE "h_content"
  /\ UNCHANGED <<inputs, browserVars, loopVars, results, html, extracted,
                 exc, failedAt, outVars>>

\* Line 36.
HtmlContent ==
  /\ pc = "h_content"
  /\ html' = Str(markup)
  /\ pc' = "h_close"
  /\ UNCHANGED <<inputs, browserVars, loopVars, results, extracted, exc,
                 failedAt, outVars>>

\* Line 39.
HtmlClose ==
  /\ pc = "h_close"
  /\ browser' = "closed"
  /\ pc' = "h_exit"
  /\ UNCHANGED <<inputs, session, loopVars, results, html, extracted, exc,
                 failedAt, outVars>>

\* Any awaited statement of the try block raises.
HtmlRaise ==
  /\ pc \in {"h_enter", "h_launch", "h_new_page", "h_goto", "h_content",
             "h_close"}
  /\ exc' = LibraryError
  /\ failedAt' = pc
  /\ pc' = IF pc = "h_enter" THEN "h_except" ELSE "h_unwind"
  /\ UNCHANGED <<inputs, browserVars, loopVars, results, html, extracted,
                 outVars>>

\* Line 40 leaves the async with, and so does an exception: Playwright
\* stops and takes the browser down with it.  On line 40 html is returned.
HtmlExit ==
  /\ pc \in {"h_exit", "h_unwind"}
  /\ session' = "stopped"
  /\ browser' = IF browser = "open" THEN "closed" ELSE browser
  /\ pc' = IF pc = "h_exit" THEN "c_got_html" ELSE "h_except"
  /\ UNCHANGED <<inputs, loopVars, results, html, extracted, exc, failedAt,
                 outVars>>

\* Lines 41-43: the exception is logged and None returned.
HtmlExcept ==
  /\ pc = "h_except"
  /\ exc' = None
  /\ html' = None
  /\ pc' = "c_got_html"
  /\ UNCHANGED <<inputs, browserVars, loopVars, results, extracted, failedAt,
                 outVars>>

\* ------------------------------------------------- fetch_content
OutputTypes == {"html", "text", "md"}

\* What trafilatura.extract may return for a page: nothing, an empty
\* string, or the text it found.
ExtractorOutputs ==
  {None, Str(<<>>), Str(<<"a">>), Str(<<"#", " ", "a">>)}

TypeName(ot) ==
  CASE ot = "html" -> <<"h", "t", "m", "l">>
    [] ot = "text" -> <<"t", "e", "x", "t">>
    [] ot = "md" -> <<"m", "d">>
    [] ot = "pdf" -> <<"p", "d", "f">>

\* Line 91.
InvalidOutputType(ot) ==
  [t |-> "ValueError",
   s |-> <<"I", "n", "v", "a", "l", "i", "d", " ", "o", "u", "t", "p", "u",
          "t", " ", "t", "y", "p", "e", ":", " ">> \o TypeName(ot)]

\* Where control goes when fetch_content is left.
ContentCaller ==
  CASE entry = "fetch" -> "t_fetch_ret"
    [] entry = "main" -> "m_url_ret"
    [] OTHER -> "done"

\* Line 77.
ContentCall ==
  /\ pc = "c_call"
  /\ pc' = "h_enter"
  /\ UNCHANGED <<inputs, browserVars, loopVars, results, html, extracted,
                 exc, failedAt, outVars>>

\* Lines 79-80.
ContentNone ==
  /\ pc = "c_got_html"
  /\ html = None
  /\ ret' = None
  /\ pc' = ContentCaller
  /\ UNCHANGED <<inputs, browserVars, loopVars, results, html, extracted,
                 exc, failedAt, exitCode, stdout>>

\* Lines 83-84.
ContentHtml ==
  /\ pc = "c_got_html"
  /\ html # None
  /\ output_type = "html"
  /\ ret' = html
  /\ pc' = ContentCaller
  /\ UNCHANGED <<inputs, browserVars, loopVars, results, html, extracted,
                 exc, failedAt, exitCode, stdout>>

\* A variant of ReturnExtracted that turns None into the empty string
\* (return extract(html) or "").
ReturnExtracted_OrEmpty(out) == IF out = None THEN Str(<<>>) ELSE out

\* Lines 86, 89: what the extractor returned is returned.
ReturnExtracted(out) == out

\* Lines 85-89: the extractor runs and returns.
ContentExtract ==
  /\ pc = "c_got_html"
  /\ html # None
  /\ output_type \in {"text", "md"}
  /\ \E out \in ExtractorOutputs :
       /\ extracted' = out
       /\ ret' = ReturnExtracted(out)
  /\ pc' = ContentCaller
  /\ UNCHANGED <<inputs, browserVars, loopVars, results, html, exc,
                 failedAt, exitCode, stdout>>

\* Lines 86, 89: the extractor raises; nothing here catches it.
ContentExtractRaise ==
  /\ pc = "c_got_html"
  /\ html # None
  /\ output_type \in {"text", "md"}
  /\ exc' = LibraryError
  /\ failedAt' = "c_extract"
  /\ pc' = ContentCaller
  /\ UNCHANGED <<inputs, browserVars, loopVars, results, html, extracted,
                 outVars>>

\* A variant of ContentInvalid that returns None for an unknown type.
ContentInvalid_ReturnsNone ==
  /\ pc = "c_got_html"
  /\ html # None
  /\ output_type \notin OutputTypes
  /\ ret' = None
  /\ pc' = ContentCaller
  /\ UNCHANGED <<inputs, browserVars, loopVars, results, html, extracted,
                 exc, failedAt, exitCode, stdout>>

\* Lines 90-91.
ContentInvalid ==
  /\ pc = "c_got_html"
  /\ html # None
  /\ output_type \notin OutputTypes
  /\ exc' = InvalidOutputType(output_type)
  /\ failedAt' = "c_match"
  /\ pc' = ContentCaller
  /\ UNCHANGED <<inputs, browserVars, loopVars, results, html, extracted,
                 outVars>>

\* ------------------------------------------------- the tool surface
CouldNotExtract ==
  <<"C", "o", "u", "l", "d", " ", "n", "o", "t", " ", "e", "x", "t", "r",
    "a", "c", "t", " ", "c", "o", "n", "t", "e", "n", "t", " ", "f", "r",
    "o", "m", " ", "t", "h", "e", " ", "p", "r", "o", "v", "i", "d", "e",
    "d", " ", "U", "R", "L", ".">>
ErrorFetching ==
  <<"E", "r", "r", "o", "r", " ", "f", "e", "t", "c", "h", "i", "n", "g",
    " ", "c", "o", "n", "t", "e", "n", "t", ":", " ">>

\* webmcp.py line 46: fetch_content(url, "md").
ToolFetchCall ==
  /\ pc = "t_fetch"
  /\ output_type' = "md"
  /\ pc' = "c_call"
  /\ UNCHANGED <<entry, argUrl, argQuery, markup, page, num_results,
                 browserVars, loopVars, results, html, extracted, exc,
                 failedAt, outVars>>

\* A variant of ToolFetchResult that tests for None only
\* (if content is None).
ToolFetchResult_NoneOnly(content) ==
  IF content = None THEN Str(CouldNotExtract) ELSE content

\* webmcp.py lines 47-49.
ToolFetchResult(content) ==
  IF ~Truthy(content) THEN Str(CouldNotExtract) ELSE content

\* webmcp.py lines 50-51.
ToolFetchError(e) == Str(ErrorFetching \o e.s)

\* webmcp.py lines 46-51, once fetch_content is left.
ToolFetchReturn ==
  /\ pc = "t_fetch_ret"
  /\ ret' = IF exc # None THEN ToolFetchError(exc) ELSE ToolFetchResult(ret)
  /\ exc' = None
  /\ pc' = "done"
  /\ UNCHANGED <<inputs, browserVars, loopVars, results, html, extracted,
                 failedAt, exitCode, stdout>>

\* webmcp.py line 23.
ToolSearchCall ==
  /\ pc = "t_search"
  /\ pc' = "s_call"
  /\ UNCHANGED <<inputs, browserVars, loopVars, results, html, extracted,
                 exc, failedAt, outVars>>

\* webmcp.py lines 24-32.
ToolSearchReturn ==
  /\ pc = "t_search_ret"
  /\ ret' = List([k \in DOMAIN ret.items |->
                    [url |-> ret.items[k].url, title |-> ret.items[k].title,
                     description |-> ret.items[k].description,
                     date |-> ret.items[k].date]])
  /\ pc' = "done"
  /\ UNCHANGED <<inputs, browserVars, loopVars, results, html, extracted,
                 exc, failedAt, exitCode, stdout>>

\* ------------------------------------------------- main
\* Lines 226-239: the mode is chosen by the truth of args.url, then of
\* args.query; with neither, main falls off its end.
MainStart ==
  /\ pc = "m_start"
  /\ IF Truthy(argUrl)
     THEN pc' = "c_call" /\ UNCHANGED exitCode
     ELSE IF Truthy(argQuery)
          THEN pc' = "s_call" /\ UNCHANGED exitCode
          ELSE pc' = "done" /\ exitCode' = Num(0)
  /\ UNCHANGED <<inputs, browserVars, loopVars, results, html, extracted,
                 exc, failedAt, ret, stdout>>

\* Lines 231-235: whether the result is printed (else exit status 1).
HasContent(result) == Truthy(result)

\* Lines 228-235.  An exception that left fetch_content is caught nowhere:
\* the interpreter prints the traceback and exits with status 1.
MainUrlReturn ==
  /\ pc = "m_url_ret"
  /\ IF exc # None
     THEN exitCode' = Num(1) /\ UNCHANGED stdout
     ELSE IF HasContent(ret)
          THEN exitCode' = Num(0) /\ stdout' = <<ret.s>>
          ELSE exitCode' = Num(1) /\ UNCHANGED stdout
  /\ pc' = "done"
  /\ UNCHANGED <<inputs, browserVars, loopVars, results, html, extracted,
                 exc, failedAt, ret>>

\* Lines 247-254: what is printed for the k-th result.
PrintedResult(k, r) ==
  [n |-> k, url |-> r.url.s, title |-> r.title.s,
   description |-> r.description,
   date |-> IF Truthy(r.date) THEN r.date ELSE None]

\* A variant of NoResults that tests for None, which a list never is
\* (if search_results is None).
NoResults_IsNone(search_results) == FALSE

\* Lines 242-244: no results exits with status 1.
NoResults(search_results) == search_results = <<>>

\* Lines 238-254.
MainQueryReturn ==
  /\ pc = "m_query_ret"
  /\ IF NoResults(ret.items)
     THEN exitCode' = Num(1) /\ UNCHANGED stdout
     ELSE /\ exitCode' = Num(0)
          /\ stdout' = [k \in DOMAIN ret.items |->
                          PrintedResult(k, ret.items[k])]
  /\ pc' = "done"
  /\ UNCHANGED <<inputs, browserVars, loopVars, results, html, extracted,
                 exc, failedAt, ret>>

\* ------------------------------------------------- specifications
\* The state every call starts from, its inputs aside.
Fresh ==
  /\ session = "none" /\ browser = "none"
  /\ elements = <<>> /\ i = 0 /\ el = FALSE
  /\ url = Unset /\ title = Unset /\ desc_text = Unset
  /\ results = <<>> /\ html = Unset /\ extracted = Unset
  /\ exc = None /\ failedAt = "none" /\ inspected = {}
  /\ ret = Unset /\ exitCode = None /\ stdout = <<>>

NoArgs == argUrl = None /\ argQuery = None
NoSearch == page = <<>> /\ num_results = 0
NoFetch == output_type = "text" /\ markup = <<>>

AUrl == <<"u", ":", "a">>
AQuery == <<"q">>

InitSearch ==
  /\ entry \in {"search_and_extract_results", "search_internet"}
  /\ pc = IF entry = "search_internet" THEN "t_search" ELSE "s_call"
  /\ page \in Pages /\ num_results \in Caps
  /\ NoArgs
  /\ NoFetch

InitFetch ==
  /\ \/ entry = "fetch_content" /\ pc = "c_call"
        /\ output_type \in OutputTypes \cup {"pdf"}
     \/ entry = "fetch" /\ pc = "t_fetch" /\ output_type = "text"
  /\ markup \in Markups
  /\ NoArgs /\ NoSearch

\* argparse: exactly one of --url and --query is given (either may be the
\* empty string), --output is one of its choices, --results an integer.
InitMain ==
  /\ entry = "main" /\ pc = "m_start"
  /\ \/ /\ argUrl \in {Str(<<>>), Str(AUrl)} /\ argQuery = None
        /\ output_type \in OutputTypes /\ markup \in Markups
        /\ NoSearch
     \/ /\ argUrl = None /\ argQuery \in {Str(<<>>), Str(AQuery)}
        /\ page \in Pages /\ num_results \in Caps
        /\ NoFetch

Init == Fresh /\ (InitSearch \/ InitFetch \/ InitMain)

NextSearch ==
  \/ SearchCall \/ SearchEnter \/ SearchLaunch \/ SearchNavigate
  \/ SearchWait \/ SearchQueryAll \/ SearchLoop \/ SearchQuerySelector
  \/ SearchUrl \/ SearchTitle \/ SearchDescription \/ SearchAppend
  \/ SearchClose \/ SearchRaise \/ SearchExit \/ SearchExcept
  \/ SearchReturn

NextFetch ==
  \/ HtmlEnter \/ HtmlLaunch \/ HtmlNavigate \/ HtmlContent \/ HtmlClose
  \/ HtmlRaise \/ HtmlExit \/ HtmlExcept
  \/ ContentCall \/ ContentNone \/ ContentHtml \/ ContentExtract
  \/ ContentExtractRaise \/ ContentInvalid

NextSurface ==
  \/ ToolFetchCall \/ ToolFetchReturn \/ ToolSearchCall \/ ToolSearchReturn
  \/ MainStart \/ MainUrlReturn \/ MainQueryReturn

Next == NextSearch \/ NextFetch \/ NextSurface

Spec == Init /\ [][Next]_vars

\* The scraper alone, on a page of one container whose raw description is
\* put together from fragments: dates, words, digits and blanks.
Fragments == {<<"x">>, <<" ">>, <<"7">>, DateA, DateB}

RECURSIVE Flatten(_)
Flatten(q) == IF q = <<>> THEN <<>> ELSE Head(q) \o Flatten(Tail(q))

RawDescriptions == {Flatten(q) : q \in SeqsUpTo(Fragments, MaxFragments)}

InitDate ==
  /\ Fresh
  /\ entry = "search_and_extract_results" /\ pc = "s_call"
  /\ \E raw \in RawDescriptions :
       page = <<Container(TRUE, Str(AUrl), Str(<<"A">>), Str(raw))>>
  /\ num_results = 1
  /\ NoArgs
  /\ NoFetch

SpecDate == InitDate /\ [][NextSearch]_vars

\* ------------------------------------------------- what is claimed
\* The definitions below state the expected results from the page alone;
\* none of them is used by the actions above.
Min(a, b) == IF a <= b THEN a ELSE b
IsPrefix(p, q) == Len(p) <= Len(q) /\ SubSeq(q, 1, Len(p)) = p

\* The container holds a URL: a link element with a non-empty href.
HasUrl(c) == c.link /\ c.href # None /\ c.href.s # <<>>

\* The entry a URL-bearing container stands for.
EntryOf(c) ==
  LET raw == IF c.desc = None THEN NoDescription ELSE c.desc.s
      date == SearchDate(raw)
  IN  [url |-> IF c.href.s[1] = "/" THEN Str(SearchOrigin \o c.href.s)
               ELSE c.href,
       title |-> IF c.title = None THEN Str(NoTitle) ELSE c.title,
       description |-> CleanDescription(raw, date),
       date |-> date]

\* The entries of the URL-bearing containers of q, in document order.
EntriesOf(q) ==
  LET kept == SelectSeq(q, HasUrl)
  IN  [k \in 1..Len(kept) |-> EntryOf(kept[k])]

\* The number of containers a run without failure looks into.
ScanLimit == IF num_results <= 0 THEN 0 ELSE Min(Len(page), num_results)

\* search_and_extract_results has been left, and fetch_content has.
SearchLeft ==
  \/ pc \in {"t_search_ret", "m_query_ret"}
  \/ pc = "done" /\ entry = "search_and_extract_results"
ContentLeft ==
  \/ pc \in {"t_fetch_ret", "m_url_ret"}
  \/ pc = "done" /\ entry = "fetch_content"
Returned(v) == exc = None /\ v.t # "unset"

LoopPoints ==
  {"s_url_el", "s_href", "s_title_el", "s_title_txt", "s_desc_el",
   "s_desc_txt"}
RenderFailed == html = None

\* C1: search_and_extract_results never raises to its caller; after a
\* failure at any statement it returns exactly the entries of the
\* containers finished before the failure (a prefix of the failure-free
\* result), and the empty list when the failure came before the loop.
C1_SearchNeverPropagates ==
  SearchLeft =>
    /\ Returned(ret) /\ ret.t = "list"
    /\ failedAt # "none" =>
         /\ i <= Len(page)
         /\ ret.items = EntriesOf(SubSeq(page, 1, i))
         /\ IsPrefix(ret.items, EntriesOf(SubSeq(page, 1, ScanLimit)))
    /\ failedAt \in {"s_enter", "s_launch", "s_new_page", "s_goto", "s_wait",
                     "s_query_all"} => ret.items = <<>>

\* A failure while reading the title of a later container, after an
\* entry was appended.
C1_Witness ==
  /\ SearchLeft /\ failedAt = "s_title_txt"
  /\ i >= 1 /\ Len(ret.items) >= 1 /\ Len(ret.items) < Len(EntriesOf(page))

\* C2: when search_and_extract_results is left, the Playwright session it
\* entered is stopped and the browser it launched is no longer open, after
\* a complete scan, a break at the cap and a failure alike.
C2_SessionClosed ==
  SearchLeft =>
    /\ session = "stopped" \/ failedAt = "s_enter"
    /\ browser = "closed" \/ failedAt \in {"s_enter", "s_launch"}
    /\ session # "open" /\ browser # "open"

\* A failure inside the loop, after the launch, with the browser closed.
C2_Witness ==
  /\ SearchLeft /\ failedAt \in LoopPoints
  /\ session = "stopped" /\ browser = "closed"

\* C3: with n containers that all hold a URL, no failure and a cap
\* maxResults >= 0 (the spec's domain of the cap), exactly
\* min(n, maxResults) entries are returned, the k-th from the k-th
\* container.
C3_CapAndOrder ==
  (/\ SearchLeft /\ failedAt = "none" /\ num_results >= 0
   /\ \A k \in DOMAIN page : HasUrl(page[k])) =>
    /\ ret.t = "list"
    /\ Len(ret.items) = Min(Len(page), num_results)
    /\ \A k \in DOMAIN ret.items : ret.items[k] = EntryOf(page[k])

\* Three different well-formed containers and a cap of two.
C3_Witness ==
  /\ SearchLeft /\ failedAt = "none" /\ num_results = 2 /\ Len(page) = 3
  /\ \A k \in DOMAIN page : HasUrl(page[k])
  /\ page[1] # page[2]
  /\ ret.items = <<EntryOf(page[1]), EntryOf(page[2])>>

\* C4: every entry, while the list is built and when it is returned, has
\* a non-empty url; a container without a URL contributes nothing, and
\* the list is a prefix of the entries of the URL-bearing containers.
C4_NoEntryWithoutUrl ==
  /\ \A k \in DOMAIN results : Truthy(results[k].url)
  /\ (SearchLeft /\ ret.t = "list") =>
       /\ \A k \in DOMAIN ret.items : Truthy(ret.items[k].url)
       /\ IsPrefix(ret.items, EntriesOf(page))

\* A container with an empty href, between two that hold a URL.
C4_Witness ==
  /\ SearchLeft /\ failedAt = "none" /\ Len(page) = 3
  /\ HasUrl(page[1]) /\ page[2].href = Str(<<>>) /\ HasUrl(page[3])
  /\ ret.items = <<EntryOf(page[1]), EntryOf(page[3])>>

\* C5: a returned date is the first match of the date pattern in the raw
\* description, and the description is the raw description with that one
\* occurrence cut out, then stripped.
C5_DateExcisedOnce ==
  (SearchLeft /\ ret.t = "list" /\ ret.items # <<>>) =>
    LET r == ret.items[1]
        raw == page[1].desc.s
        from == DateMatchStart(raw)
        to == DateMatchEnd(raw, from)
    IN  r.date # None =>
          /\ from > 0
          /\ r.date.s = SubSeq(raw, from, to)
          /\ r.description
               = Strip(SubSeq(raw, 1, from - 1) \o SubSeq(raw, to + 1, Len(raw)))

\* C6: fetch_content returns the markup for html, what the extractor
\* returned for text and md (None when it returned None), and None,
\* without an exception, when rendering failed.
C6_ContentResult ==
  ContentLeft =>
    /\ RenderFailed => ret = None /\ exc = None
    /\ (~RenderFailed /\ output_type = "html") =>
         Returned(ret) /\ ret = Str(markup)
    /\ (~RenderFailed /\ output_type \in {"text", "md"} /\ Returned(ret)) =>
         /\ ret = extracted
         /\ extracted = None => ret = None

\* The extractor found nothing in a rendered page.
C6_Witness ==
  /\ ContentLeft /\ ~RenderFailed /\ output_type = "md"
  /\ extracted = None /\ ret = None /\ exc = None

\* C7, as claimed: an unrecognised output type always ends in the
\* invalid-argument failure and never in a None result.
C7_InvalidTypeAlwaysFails ==
  (ContentLeft /\ output_type \notin OutputTypes) =>
    /\ exc # None /\ exc.t = "ValueError"
    /\ ret # None

\* C7, amended: an unrecognised output type ends in the invalid-argument
\* failure when rendering succeeded; when rendering failed, None is
\* returned whatever the output type.
C7_InvalidTypeAfterRender ==
  (ContentLeft /\ output_type \notin OutputTypes) =>
    IF RenderFailed
    THEN ret = None /\ exc = None
    ELSE /\ exc = InvalidOutputType(output_type)
         /\ ret = Unset

\* An unrecognised output type on a rendered page.
C7_Witness ==
  /\ ContentLeft /\ output_type = "pdf" /\ ~RenderFailed
  /\ exc # None /\ exc.t = "ValueError"

UrlMode == entry = "main" /\ argUrl # None /\ argUrl.s # <<>>
QueryMode == entry = "main" /\ argQuery # None /\ argQuery.s # <<>>
\* fetch_content produced content: the markup, or what the extractor found.
Produced ==
  /\ ~RenderFailed /\ failedAt # "c_extract"
  /\ output_type = "html" \/ Truthy(extracted)

\* C9: the command line exits with 1 exactly when URL mode fetched no
\* content or query mode found no result, and with 0 otherwise; in URL
\* mode the content produced is what is printed.
C9_ExitCode ==
  (pc = "done" /\ entry = "main") =>
    /\ exitCode \in {Num(0), Num(1)}
    /\ exitCode = Num(1) <=>
         \/ UrlMode /\ ~Produced
         \/ QueryMode /\ results = <<>>
    /\ (UrlMode /\ Produced) =>
         /\ exitCode = Num(0)
         /\ stdout = <<IF output_type = "html" THEN markup ELSE extracted.s>>
    /\ (QueryMode /\ results # <<>>) =>
         exitCode = Num(0) /\ Len(stdout) = Len(results)

\* Markdown was extracted and printed.
C9_Witness ==
  /\ pc = "done" /\ UrlMode /\ output_type = "md" /\ Truthy(extracted)
  /\ exitCode = Num(0) /\ stdout = <<extracted.s>>

\* C10: only the containers at positions 0 .. maxResults-1 are looked
\* into; a run without failure returns exactly the entries of the
\* URL-bearing containers among them, skipped ones not being replaced by
\* later ones; with maxResults <= 0 nothing is looked into and the list is
\* empty.
C10_CapBoundsInspected ==
  /\ \A k \in inspected : 0 <= k /\ k < num_results /\ k < Len(page)
  /\ num_results <= 0 => inspected = {} /\ results = <<>>
  /\ (SearchLeft /\ failedAt = "none" /\ ret.t = "list") =>
       /\ inspected = 0..(ScanLimit - 1)
       /\ ret.items = EntriesOf(SubSeq(page, 1, ScanLimit))

\* A skipped container among the first two, and a URL-bearing third one
\* that is never looked into.
C10_Witness ==
  /\ SearchLeft /\ failedAt = "none" /\ num_results = 2 /\ Len(page) = 3
  /\ ~HasUrl(page[1]) /\ HasUrl(page[2]) /\ HasUrl(page[3])
  /\ inspected = {0, 1}
  /\ ret.items = <<EntryOf(page[2])>>

====
